---- MODULE Spec2Model ----
(***************************************************************************)
(* Model of the commit-message generation orchestrator of ai-commit:       *)
(* generateCommitMsg (generate-commit-msg.ts), the diff sources            *)
(* (git-utils.ts) and the three providers' single and multi-candidate      *)
(* functions (openai-utils.ts, gemini-utils.ts, claude-utils.ts).          *)
(*                                                                         *)
(* Strings are sequences of tokens.  A token is a piece of text that is    *)
(* never split by the operations of the program: a word, a blank, a line   *)
(* break, a header, a piece of diff.  Temperatures are tenths (0.3 is 3).  *)
(***************************************************************************)
EXTENDS Integers, Sequences, FiniteSets, TLC

VARIABLES
  config,             \* the settings, as ConfigurationManager.getConfig reads them
  pc,                 \* position of the generateCommitMsg invocation
  aiProvider,         \* generate-commit-msg.ts:78
  diffMode,           \* generate-commit-msg.ts:79
  multipleSuggestions,\* generate-commit-msg.ts:80
  suggestionCount,    \* generate-commit-msg.ts:81
  suggestionStrategy, \* generate-commit-msg.ts:82
  gitOutput,          \* what the git commands run by getDiffByMode printed
  diffResult,         \* { diff, error } returned by getDiffByMode
  scmInputBox,        \* repo.inputBox.value
  messages,           \* the conversation object handed to the provider
  requests,           \* provider requests issued by this invocation
  caught,             \* the error caught by the multi-candidate function
  commitSuggestions,  \* the list returned by the multi-candidate function
  err,                \* the error caught at generate-commit-msg.ts:231
  thrown,             \* the error generateCommitMsg raised
  previous,           \* the length of the list an earlier, equal call returned
  selected            \* the answers of showQuickPick (0: dismissed)

vars == <<config, pc, aiProvider, diffMode, multipleSuggestions, suggestionCount,
          suggestionStrategy, gitOutput, diffResult, scmInputBox, messages, requests,
          caught, commitSuggestions, err, thrown, previous, selected>>

----------------------------------------------------------------------------
(* Bounds *)

\* largest suggestion count the configuration supplies in the model
MaxCount == 4
\* the configuration is not validated: counts down to -NegCounts are supplied
NegCounts == 1

Counts == (0 - NegCounts)..MaxCount

\* how many times the settings are changed while an invocation runs
MaxEdits == 1

----------------------------------------------------------------------------
(* Strings *)

Min(a, b) == IF a < b THEN a ELSE b
Max(a, b) == IF a > b THEN a ELSE b

Whitespace == {" ", "\n"}

\* String.prototype.trim
RECURSIVE TrimStart(_)
TrimStart(s) ==
  IF s # <<>> /\ Head(s) \in Whitespace THEN TrimStart(Tail(s)) ELSE s

RECURSIVE TrimEnd(_)
TrimEnd(s) ==
  IF s # <<>> /\ s[Len(s)] \in Whitespace
  THEN TrimEnd(SubSeq(s, 1, Len(s) - 1)) ELSE s

Trim(s) == TrimEnd(TrimStart(s))

\* String.prototype.includes
Includes(s, needle) ==
  \E i \in 1..(Len(s) + 1) :
    /\ i + Len(needle) - 1 <= Len(s)
    /\ SubSeq(s, i, i + Len(needle) - 1) = needle

\* a slice that is forgotten
SliceForgotten(s, end) == s

\* Array.prototype.slice(0, end)
Slice0(s, end) ==
  IF end < 0 THEN SubSeq(s, 1, Max(Len(s) + end, 0))
  ELSE SubSeq(s, 1, Min(end, Len(s)))

\* Array.prototype.join over an array of strings
RECURSIVE Join(_, _)
Join(ss, sep) ==
  IF ss = <<>> THEN <<>>
  ELSE IF Len(ss) = 1 THEN ss[1]
  ELSE ss[1] \o sep \o Join(Tail(ss), sep)

\* JavaScript truthiness of a string
Truthy(s) == s # <<>>

----------------------------------------------------------------------------
(* git-utils.ts *)

NoChanges == <<"No", " ", "changes">>
NoChangesStaged == <<"No", " ", "changes", " ", "staged", ".">>
NoUnstagedChanges == <<"No", " ", "unstaged", " ", "changes", ".">>
NoChangesFound == <<"No", " ", "changes", " ", "found", ".">>
StagedHeader == <<"=== STAGED CHANGES ===", "\n">>
UnstagedHeader == <<"=== UNSTAGED CHANGES ===", "\n">>
NoError == <<>>
GitError == <<"git failed">>

\* what `git diff` prints: nothing, a blank line, a diff, a diff of a file
\* that holds the words "No changes"
GitOutputs ==
  { <<>>, <<"\n">>, <<"diff --git">>, <<"diff --git", "\n", "+", "No", " ", "changes">> }

\* the outputs drawn for each of the two commands of the mode `all`
GitOutputsAll == { <<>>, <<"diff --git">> }

getDiffStaged(staged, fails) ==
  IF fails THEN [diff |-> <<>>, error |-> GitError]
  ELSE [diff |-> IF Truthy(staged) THEN staged ELSE NoChangesStaged,
        error |-> NoError]

getDiffUnstaged(unstaged, fails) ==
  IF fails THEN [diff |-> <<>>, error |-> GitError]
  ELSE [diff |-> IF Truthy(unstaged) THEN unstaged ELSE NoUnstagedChanges,
        error |-> NoError]

\* a combined diff that puts the unstaged changes first
getDiffAllUnstagedFirst(staged, unstaged, fails) ==
  IF fails THEN [diff |-> <<>>, error |-> GitError]
  ELSE
    LET c1 == IF Truthy(unstaged) THEN UnstagedHeader \o unstaged ELSE <<>>
        c2 == IF Truthy(staged)
              THEN IF Truthy(c1)
                   THEN c1 \o <<"\n", "\n">> \o StagedHeader \o staged
                   ELSE StagedHeader \o staged
              ELSE c1
        c3 == IF Truthy(c2) THEN c2 ELSE NoChangesFound
    IN [diff |-> c3, error |-> NoError]

getDiffAll(staged, unstaged, fails) ==
  IF fails THEN [diff |-> <<>>, error |-> GitError]
  ELSE
    LET c1 == IF Truthy(staged) THEN StagedHeader \o staged ELSE <<>>
        c2 == IF Truthy(unstaged)
              THEN IF Truthy(c1)
                   THEN c1 \o <<"\n", "\n">> \o UnstagedHeader \o unstaged
                   ELSE UnstagedHeader \o unstaged
              ELSE c1
        c3 == IF Truthy(c2) THEN c2 ELSE NoChangesFound
    IN [diff |-> c3, error |-> NoError]

DiffModes == {"staged", "unstaged", "all"}

getDiffByMode(mode, staged, unstaged, fails) ==
  CASE mode = "staged" -> getDiffStaged(staged, fails)
    [] mode = "unstaged" -> getDiffUnstaged(unstaged, fails)
    [] mode = "all" -> getDiffAll(staged, unstaged, fails)
    [] OTHER -> getDiffStaged(staged, fails)

----------------------------------------------------------------------------
(* Conversations, responses and errors *)

Providers == {"openai", "gemini", "claude"}
\* "other" stands for any value outside the three recognised strategies
Strategies == {"temperature", "style", "single_request", "other"}

Turn(role, content) == [role |-> role, content |-> content]

\* prompts.ts: the initial turns, with or without a system turn
MainCommitPrompts ==
  { <<Turn("system", <<"You are a commit message generator">>)>>,
    <<Turn("user", <<"Write a commit message">>)>> }

\* generate-commit-msg.ts:20-39
generateCommitMessageChatCompletionPrompt(init, diff, additionalContext) ==
  LET withContext ==
        IF Truthy(additionalContext)
        THEN Append(init, Turn("user",
               <<"Additional context for the changes:", "\n">> \o additionalContext))
        ELSE init
  IN Append(withContext, Turn("user", diff))

Contents(msgs) == [i \in 1..Len(msgs) |-> msgs[i].content]

\* messages.map(m => m.content).join('\n')
JoinedContents(msgs) == Join(Contents(msgs), <<"\n">>)

\* what a provider answers: a text, or (Claude) a content block that is no
\* text.  A null content of OpenAI is read as the empty text by every reader
\* (`|| ''`, `?.trim() ||`, `singleMessage ||`, `if (commitMessage)`).
MsgTok == <<"m1", "m2", "m3", "m4", "m5", "m6">>

Text(t) == [shape |-> "text", text |-> t]
NoText == [shape |-> "other", text |-> <<>>]

ListTexts ==
  { <<>>,
    <<"plain">>,
    <<"1", ".", " ", "a", "\n", "2", ".", " ", "b", "\n", "3", ".", " ", "c">>,
    <<"Here:", "\n", " ", "1", ".", " ", "a", "\n", "2", ".", "b", "\n">> }

Responses(provider, kind, i) ==
  (IF kind = "list" THEN {Text(t) : t \in ListTexts}
   ELSE {Text(<<>>), Text(<<" ", MsgTok[i], "\n">>)})
  \cup (IF provider = "claude" THEN {NoText} ELSE {})

\* an error object: src is the request that produced it (0: none)
Error(src, status, code, response, message) ==
  [src |-> src, status |-> status, code |-> code, response |-> response,
   message |-> message]

\* the errors a provider request rejects with
SdkErrors(provider, i) ==
  { Error(i, 401, "", 0, <<"401 Unauthorized">>),
    Error(i, 0, "ENOTFOUND", 0, <<"getaddrinfo ENOTFOUND">>) }

NoResponse == Text(<<>>)
NoErr == Error(0, 0, "", 0, <<>>)

\* ConfigurationManager.getConfig: the value the settings hold for the key
\* at the time of the call
getConfig(key) == config[key]

\* a request that is sent with the model name and the key of the first
\* request of the invocation, whatever the settings hold now
RequestCached(provider, kind, temperature, args, sent) ==
  [provider |-> provider,
   model |-> IF requests # <<>> THEN requests[1].model ELSE getConfig("MODEL"),
   apiKey |-> IF requests # <<>> THEN requests[1].apiKey ELSE getConfig("API_KEY"),
   kind |-> kind, temperature |-> temperature, args |-> args, sent |-> sent,
   st |-> "inflight", resp |-> NoResponse, err |-> NoErr]

\* a provider request: provider is the provider whose API it is sent to,
\* model and apiKey are the model name and the key of the client it is sent
\* with, read from the settings by the function that issues it
Request(provider, kind, temperature, args, sent) ==
  [provider |-> provider,
   model |-> getConfig("MODEL"), apiKey |-> getConfig("API_KEY"),
   kind |-> kind, temperature |-> temperature, args |-> args, sent |-> sent,
   st |-> "inflight", resp |-> NoResponse, err |-> NoErr]

Candidate(src, text) == [src |-> src, text |-> text]

ErrorGeneratingMessage == <<"Error generating message">>

----------------------------------------------------------------------------
(* Numbered-list parsing: openai-utils.ts:110-116, claude-utils.ts:145-151,
   gemini-utils.ts:103-109 *)

Digits == {"0", "1", "2", "3", "4", "5", "6", "7", "8", "9"}

\* String.prototype.split('\n')
RECURSIVE SplitLines(_)
SplitLines(s) ==
  IF \A i \in 1..Len(s) : s[i] # "\n" THEN <<s>>
  ELSE LET k == CHOOSE i \in 1..Len(s) :
                  s[i] = "\n" /\ \A j \in 1..(i - 1) : s[j] # "\n"
       IN <<SubSeq(s, 1, k - 1)>> \o SplitLines(SubSeq(s, k + 1, Len(s)))

\* the length of the match of /^\d+\./ at the start of s, 0 when none
NumberPrefix(s) ==
  IF \E k \in 1..Len(s) : s[k] \notin Digits
  THEN LET k == CHOOSE i \in 1..Len(s) :
                  s[i] \notin Digits /\ \A j \in 1..(i - 1) : s[j] \in Digits
       IN IF k > 1 /\ s[k] = "." THEN k ELSE 0
  ELSE 0

\* line => /^\d+\./.test(line.trim())
IsNumbered(line) == NumberPrefix(Trim(line)) > 0

\* line => line.replace(/^\d+\.\s*/, '').trim()
StripNumber(line) ==
  IF NumberPrefix(line) > 0
  THEN Trim(TrimStart(SubSeq(line, NumberPrefix(line) + 1, Len(line))))
  ELSE Trim(line)

ParseNumberedList(response, count) ==
  LET lines == SplitLines(Trim(response))
      kept == SelectSeq(lines, IsNumbered)
      commitMessages == Slice0([i \in 1..Len(kept) |-> StripNumber(kept[i])], count)
  IN IF Len(commitMessages) >= 2 THEN commitMessages ELSE <<Trim(response)>>

----------------------------------------------------------------------------
(* What each provider sends *)

\* a ladder of four temperatures
TemperaturesFour == <<3, 5, 7, 9>>

\* tenths: [0.3, 0.7, 0.9]
Temperatures == <<3, 7, 9>>
\* the default of OPENAI_TEMPERATURE, GEMINI_TEMPERATURE, CLAUDE_TEMPERATURE
DefaultTemperature == 7
\* the temperature of the style and single_request requests
FixedTemperature == 7

Styles ==
  << "Generate a concise commit message (max 50 characters)",
     "Generate a detailed commit message with scope and context",
     "Generate a technical commit message focusing on implementation details" >>

AdditionalInstruction(style) == <<"\n", "\n", "Additional instruction: ", style>>

AnalyzeDiff(diff) ==
  <<"Please analyze the following git diff and generate a commit message:",
    "\n", "\n">> \o diff

\* the instruction of the single_request strategy of OpenAI and Gemini
\* an instruction that asks for the technical version whatever the count
ListInstructionThree(count) ==
  <<"\n", "\n", "Please generate ", ToString(count),
    " different commit message options.", "\n",
    "1. A concise version", "\n", "2. A detailed version", "\n",
    "3. A technical version">>

ListInstruction(count) ==
  <<"\n", "\n", "Please generate ", ToString(count),
    " different commit message options.", "\n",
    "1. A concise version", "\n", "2. A detailed version", "\n">>
  \o (IF count > 2 THEN <<"3. A technical version">> ELSE <<>>)

\* the instruction of the single_request strategy of Claude
ClaudeListInstruction(count) ==
  <<"\n", "\n", "Please generate ", ToString(count),
    " different commit message options for the following changes.", "\n",
    "1. A concise version", "\n", "2. A detailed version", "\n", "3. ">>
  \o (IF count > 2 THEN <<"A technical version">> ELSE <<>>)

\* the arguments the caller hands to a provider's functions:
\* (messages) for OpenAI and Gemini, (prompt, diff) for Claude
CallArgs(provider, msgs, diff) ==
  IF provider = "claude"
  THEN <<Turn("prompt", JoinedContents(msgs)), Turn("diff", diff)>>
  ELSE msgs

ClaudePayload(system, user) == <<Turn("system", system), Turn("user", user)>>

\* the request of ChatGPTAPI / GeminiAPI / generateCommitWithClaude
SinglePayload(provider, args) ==
  CASE provider = "openai" -> args
    [] provider = "gemini" ->
         [i \in 1..Len(args) |-> Turn("user", args[i].content)]
    [] provider = "claude" ->
         ClaudePayload(args[1].content, AnalyzeDiff(args[2].content))

\* the request of the single_request strategy
ListPayload(provider, args, count) ==
  CASE provider = "openai" ->
         [args EXCEPT ![Len(args)].content = @ \o ListInstruction(count)]
    [] provider = "gemini" ->
         <<Turn("user", JoinedContents(args) \o ListInstruction(count))>>
    [] provider = "claude" ->
         ClaudePayload(
           <<"You are a helpful assistant that generates conventional commit messages.">>,
           args[1].content \o ClaudeListInstruction(count)
             \o <<"\n", "\n", "Git diff:", "\n">> \o args[2].content)

\* the request of the temperature strategy
TemperaturePayload(provider, args) ==
  CASE provider = "openai" -> args
    [] provider = "gemini" -> <<Turn("user", JoinedContents(args))>>
    [] provider = "claude" ->
         ClaudePayload(args[1].content, AnalyzeDiff(args[2].content))

HasSystem(msgs) == \E k \in 1..Len(msgs) : msgs[k].role = "system"

\* styledMessages.find(m => m.role === 'system')
SystemIndex(msgs) ==
  CHOOSE k \in 1..Len(msgs) :
    msgs[k].role = "system" /\ \A j \in 1..(k - 1) : msgs[j].role # "system"

\* openai-utils.ts:143-153 for the styles of `used`, in order: the turns of
\* `styledMessages` are the objects of `messages`, so that an instruction
\* appended to the system turn is appended in `messages` as well
RECURSIVE StyledMessages(_, _)
StyledMessages(msgs, used) ==
  IF used = <<>> THEN msgs
  ELSE StyledMessages(
         [msgs EXCEPT ![SystemIndex(msgs)].content = @ \o AdditionalInstruction(Head(used))],
         Tail(used))

\* the conversation the i-th style request of OpenAI is sent with.  The SDK
\* serialises the body either in the call (eager) or after the caller has
\* run to its await (not eager): both are outcomes a build can produce
OpenAIStylePayload(msgs, used, i, eager) ==
  IF HasSystem(msgs)
  THEN StyledMessages(msgs, IF eager THEN SubSeq(used, 1, i) ELSE used)
  ELSE <<Turn("system", <<used[i]>>)>> \o msgs

\* the request of the i-th style
StylePayload(provider, args, used, i, eager) ==
  CASE provider = "openai" -> OpenAIStylePayload(args, used, i, eager)
    [] provider = "gemini" ->
         <<Turn("user", JoinedContents(args) \o AdditionalInstruction(used[i]))>>
    [] provider = "claude" ->
         ClaudePayload(args[1].content \o AdditionalInstruction(used[i]),
                       AnalyzeDiff(args[2].content))

\* the caller's conversation after the style strategy has issued its requests
ArgsAfterStyle(provider, args, used) ==
  IF provider = "openai" /\ HasSystem(args) THEN StyledMessages(args, used)
  ELSE args

----------------------------------------------------------------------------
(* What each provider makes of a response *)

Returned(list) == [kind |-> "return", list |-> list, e |-> NoErr]
Raised(e) == [kind |-> "throw", list |-> <<>>, e |-> e]

ClaudeAuthMessage == <<"Claude API authentication failed. Please check your API key.">>
ClaudeRateLimitMessage == <<"Claude API rate limit exceeded. Please try again later.">>
ClaudeMalformedMessage == <<"Claude API request was malformed. Please check your configuration.">>
ClaudeServerMessage == <<"Claude API server error. Please try again later.">>
NetworkMessage == <<"Network error. Please check your internet connection.">>

\* a classification that knows the status 500 only
ClaudeClassifyOnly500(e) ==
  Error(e.src, 0, "", 0,
    IF e.status = 401 THEN ClaudeAuthMessage
    ELSE IF e.status = 429 THEN ClaudeRateLimitMessage
    ELSE IF e.status = 400 THEN ClaudeMalformedMessage
    ELSE IF e.status = 500 THEN ClaudeServerMessage
    ELSE IF e.code \in {"ENOTFOUND", "ECONNREFUSED"} THEN NetworkMessage
    ELSE <<"Claude API error: ">>
           \o (IF Truthy(e.message) THEN e.message ELSE <<"Unknown error">>))

\* claude-utils.ts:57-74
ClaudeClassify(e) ==
  Error(e.src, 0, "", 0,
    IF e.status = 401 THEN ClaudeAuthMessage
    ELSE IF e.status = 429 THEN ClaudeRateLimitMessage
    ELSE IF e.status = 400 THEN ClaudeMalformedMessage
    ELSE IF e.status >= 500 THEN ClaudeServerMessage
    ELSE IF e.code \in {"ENOTFOUND", "ECONNREFUSED"} THEN NetworkMessage
    ELSE <<"Claude API error: ">>
           \o (IF Truthy(e.message) THEN e.message ELSE <<"Unknown error">>))

UnexpectedFormat(i) ==
  Error(i, 0, "", 0, <<"Unexpected response format from Claude API">>)

\* ChatGPTAPI, GeminiAPI, generateCommitWithClaude: the text returned or the
\* error raised for the settled request r, the i-th of the invocation
SingleResult(provider, i, r) ==
  IF provider = "claude"
  THEN IF r.st = "err" THEN Raised(ClaudeClassify(r.err))
       ELSE IF r.resp.shape = "text"
            THEN Returned(<<Candidate(i, Trim(r.resp.text))>>)
            ELSE Raised(ClaudeClassify(UnexpectedFormat(i)))
  ELSE IF r.st = "err" THEN Raised(r.err)
       ELSE Returned(<<Candidate(i, r.resp.text)>>)

\* a list that drops an empty message
SingleListDropsEmpty(provider, single) ==
  IF Truthy(single[1].text) THEN single ELSE <<>>

\* return [singleMessage || 'Error generating message'] (OpenAI, Gemini),
\* return [singleMessage] (Claude)
SingleList(provider, single) ==
  IF provider = "claude" \/ Truthy(single[1].text) THEN single
  ELSE <<Candidate(single[1].src, ErrorGeneratingMessage)>>

\* responses.map(...) of the temperature and style strategies
FanCandidate(provider, i, resp) ==
  Candidate(i,
    IF provider = "claude"
    THEN IF resp.shape = "text" THEN Trim(resp.text) ELSE ErrorGeneratingMessage
    ELSE IF Truthy(Trim(resp.text)) THEN Trim(resp.text)
         ELSE ErrorGeneratingMessage)

\* the candidates in the reverse of the order of the requests
FanListReversed(provider, reqs) ==
  [i \in 1..Len(reqs) |->
     FanCandidate(provider, Len(reqs) + 1 - i, reqs[Len(reqs) + 1 - i].resp)]

FanList(provider, reqs) ==
  [i \in 1..Len(reqs) |-> FanCandidate(provider, i, reqs[i].resp)]

\* the candidates of the single_request strategy, from the request i
ListCandidates(i, text, count) ==
  LET parsed == ParseNumberedList(text, count)
  IN [k \in 1..Len(parsed) |-> Candidate(i, parsed[k])]

----------------------------------------------------------------------------
(* generate-commit-msg.ts: what follows the provider's answer *)

NoMessagesGenerated == <<"Error: No commit messages generated">>
FailedToGenerate == Error(0, 0, "", 0, <<"Failed to generate commit message">>)

\* generate-commit-msg.ts:231-255
ErrorMessage(provider, e) ==
  IF provider = "openai" /\ e.response # 0
  THEN CASE e.response = 401 -> <<"Invalid ", "OpenAI", " API key or unauthorized access">>
         [] e.response = 429 -> <<"Rate limit exceeded. Please try again later">>
         [] e.response = 500 -> <<"OpenAI", " server error. Please try again later">>
         [] e.response = 503 -> <<"OpenAI", " service is temporarily unavailable">>
         [] OTHER -> <<"An unexpected error occurred">>
  ELSE IF provider = "gemini" THEN <<"Gemini", " API error: ">> \o e.message
  ELSE IF provider = "claude" THEN <<"Claude", " API error: ">> \o e.message
  ELSE <<"An unexpected error occurred">>

\* the catch of generate-commit-msg.ts:231: the invocation raises
Raise(e) ==
  /\ err' = <<e>>
  /\ thrown' = <<ErrorMessage(aiProvider, e)>>
  /\ pc' = "done"
  /\ UNCHANGED scmInputBox

\* a write that comes before the test of the message
SetCommitMessageWriteFirst(commitMessage) ==
  /\ scmInputBox' = commitMessage
  /\ pc' = "done"
  /\ IF Truthy(commitMessage)
     THEN UNCHANGED <<err, thrown>>
     ELSE /\ err' = <<FailedToGenerate>>
          /\ thrown' = <<ErrorMessage(aiProvider, FailedToGenerate)>>

\* generate-commit-msg.ts:226-230
SetCommitMessage(commitMessage) ==
  IF Truthy(commitMessage)
  THEN /\ scmInputBox' = commitMessage
       /\ pc' = "done"
       /\ UNCHANGED <<err, thrown>>
  ELSE Raise(FailedToGenerate)

\* generate-commit-msg.ts:168-201: the multi-candidate function has answered
Deliver(out) ==
  IF out.kind = "throw"
  THEN Raise(out.e) /\ UNCHANGED commitSuggestions
  ELSE /\ commitSuggestions' = <<out.list>>
       /\ IF Len(out.list) > 1
          THEN pc' = "picker" /\ UNCHANGED <<scmInputBox, err, thrown>>
          ELSE SetCommitMessage(
                 IF out.list # <<>> /\ Truthy(out.list[1].text)
                 THEN out.list[1].text ELSE NoMessagesGenerated)

----------------------------------------------------------------------------
(* The invocation *)

Diff == diffResult.diff

\* a dispatch that reads the provider again at each call
DispatchConfigured(provider) == config.AI_PROVIDER

\* generate-commit-msg.ts:147-165 and 204-223: the provider whose functions
\* the invocation calls; each function calls its own provider's API and
\* retries with its own provider's single-message function
Dispatch(provider) ==
  IF provider = "gemini" THEN "gemini"
  ELSE IF provider = "claude" THEN "claude"
  ELSE "openai"

Args == CallArgs(Dispatch(aiProvider), messages, Diff)

Resolved(r, resp) == [r EXCEPT !.st = "ok", !.resp = resp]
Rejected(r, e) == [r EXCEPT !.st = "err", !.err = e]

\* the settings generateCommitMsg and the providers read.  API_KEY: the API
\* key the invocation reads, that of its provider, is set
\* MODEL and TEMPERATURE: the model name and the temperature of the provider.
\* EDITS: how many times the user has changed the settings
Config(provider, mode, multi, count, strategy, key) ==
  [AI_PROVIDER |-> provider, DIFF_MODE |-> mode, MULTIPLE_SUGGESTIONS |-> multi,
   SUGGESTION_COUNT |-> count, SUGGESTION_STRATEGY |-> strategy,
   API_KEY |-> IF key THEN "key-a" ELSE "",
   MODEL |-> "model-a", TEMPERATURE |-> DefaultTemperature, EDITS |-> 0]

\* if (!apiKey): the key the invocation reads is set
HasKey == getConfig("API_KEY") # ""

Configs ==
  {Config(p, m, multi, c, s, key) :
     p \in Providers, m \in DiffModes, multi \in BOOLEAN, c \in Counts,
     s \in Strategies, key \in BOOLEAN}

\* the settings of the invocations that are followed request by request
CallCounts == {c \in Counts : c >= 1}

CallConfigs ==
  {Config(p, "staged", multi, c, s, key) :
     p \in Providers, multi \in BOOLEAN, c \in CallCounts, s \in Strategies,
     key \in BOOLEAN}

\* the variables of an invocation that has not begun
NotStarted ==
  /\ aiProvider = "openai"
  /\ diffMode = "staged"
  /\ multipleSuggestions = FALSE
  /\ suggestionCount = 3
  /\ suggestionStrategy = "temperature"
  /\ gitOutput = [staged |-> <<>>, unstaged |-> <<>>, fails |-> FALSE]
  /\ diffResult = [diff |-> <<>>, error |-> NoError]
  /\ messages = <<>>
  /\ requests = <<>>
  /\ caught = <<>>
  /\ commitSuggestions = <<>>
  /\ err = <<>>
  /\ thrown = <<>>
  /\ previous = <<>>
  /\ selected = <<>>

Init ==
  /\ pc = "start"
  /\ config \in Configs
  /\ scmInputBox \in {<<>>, <<" ", "fixes #12">>}
  /\ NotStarted

\* generate-commit-msg.ts:75-104: the configuration is read and the diff of
\* the mode is taken; a mode runs only its own git commands
GetDiff ==
  /\ pc = "start"
  /\ aiProvider' = config.AI_PROVIDER
  /\ diffMode' = config.DIFF_MODE
  /\ multipleSuggestions' = config.MULTIPLE_SUGGESTIONS
  /\ suggestionCount' = config.SUGGESTION_COUNT
  /\ suggestionStrategy' = config.SUGGESTION_STRATEGY
  /\ LET m == config.DIFF_MODE
     IN \E fails \in BOOLEAN :
          \E staged \in (IF m = "unstaged" \/ fails THEN {<<>>}
                         ELSE IF m = "all" THEN GitOutputsAll ELSE GitOutputs),
             unstaged \in (IF m = "staged" \/ fails THEN {<<>>}
                           ELSE IF m = "all" THEN GitOutputsAll ELSE GitOutputs) :
            /\ gitOutput' = [staged |-> staged, unstaged |-> unstaged, fails |-> fails]
            /\ diffResult' = getDiffByMode(m, staged, unstaged, fails)
  /\ pc' = "check"
  /\ UNCHANGED <<config, scmInputBox, messages, requests, caught,
                 commitSuggestions, err, thrown, previous, selected>>

\* a check that forgets the sentinel
IsEmptyDiffNoSentinel(diff) == ~Truthy(diff) \/ Trim(diff) = <<>>

\* generate-commit-msg.ts:110
IsEmptyDiff(diff) ==
  ~Truthy(diff) \/ Includes(diff, NoChanges) \/ Trim(diff) = <<>>

NoChangesMessage(mode) ==
  CASE mode = "staged" -> <<"No changes staged for commit">>
    [] mode = "unstaged" -> <<"No unstaged changes found">>
    [] OTHER -> <<"No changes found">>

\* generate-commit-msg.ts:106-139: the preconditions, then the conversation
CheckDiff ==
  /\ pc = "check"
  /\ IF Truthy(diffResult.error)
     THEN /\ thrown' = <<<<"Failed to get ", diffMode, " changes: ">> \o diffResult.error>>
          /\ pc' = "done"
          /\ UNCHANGED messages
     ELSE IF IsEmptyDiff(Diff)
     THEN /\ thrown' = <<NoChangesMessage(diffMode)>>
          /\ pc' = "done"
          /\ UNCHANGED messages
     ELSE /\ \E init \in MainCommitPrompts :
               messages' = generateCommitMessageChatCompletionPrompt(
                             init, Diff, Trim(scmInputBox))
          /\ pc' = "generate"
          /\ UNCHANGED thrown
  /\ UNCHANGED <<config, aiProvider, diffMode, multipleSuggestions,
                 suggestionCount, suggestionStrategy, gitOutput, diffResult,
                 scmInputBox, requests, caught, commitSuggestions, err, previous,
                 selected>>

KeyNotConfigured(provider) ==
  Error(0, 0, "", 0,
    CASE provider = "gemini" -> <<"Gemini API Key not configured">>
      [] provider = "claude" -> <<"Claude API Key not configured">>
      [] OTHER -> <<"OpenAI API Key not configured">>)

\* generate-commit-msg.ts:148-151, 154-157, 161-164, 205-208, 211-214, 218-221
KeyMissing ==
  /\ pc = "generate"
  /\ ~HasKey
  /\ Raise(KeyNotConfigured(aiProvider))
  /\ UNCHANGED <<config, aiProvider, diffMode, multipleSuggestions,
                 suggestionCount, suggestionStrategy, gitOutput, diffResult,
                 messages, requests, caught, commitSuggestions, previous,
                 selected>>

Frame == UNCHANGED <<config, aiProvider, diffMode, multipleSuggestions,
                     suggestionCount, suggestionStrategy, gitOutput, diffResult,
                     previous, selected>>

\* a call of ChatGPTAPI / GeminiAPI / generateCommitWithClaude
SingleRequest(kind, provider, args) ==
  Request(provider, kind, getConfig("TEMPERATURE"), args,
          SinglePayload(provider, args))

\* generate-commit-msg.ts:203-223: one message is asked for
GenerateSingle ==
  /\ pc = "generate"
  /\ HasKey
  /\ ~multipleSuggestions
  /\ requests' = <<SingleRequest("direct", Dispatch(aiProvider), Args)>>
  /\ pc' = "await_direct"
  /\ Frame
  /\ UNCHANGED <<scmInputBox, messages, caught, commitSuggestions, err, thrown>>

\* a retry that raises the error of the retry
RethrowFallbackError(error, fallbackError) == fallbackError

\* openai-utils.ts:178-180, claude-utils.ts:206-208, gemini-utils.ts:165-167:
\* catch (fallbackError) { throw error; }
Rethrow(error, fallbackError) == error

\* getOpenAIConfig (openai-utils.ts:16-18), getGeminiConfig
\* (gemini-utils.ts:13-15), createClaudeClient (claude-utils.ts:12-14)
ClientError(provider) ==
  Error(0, 0, "", 0,
    CASE provider = "gemini" ->
           <<"The GEMINI_API_KEY environment variable is missing or empty.">>
      [] provider = "claude" ->
           <<"Claude API key is not configured. Please set CLAUDE_API_KEY in extension settings.">>
      [] OTHER ->
           <<"The OPENAI_API_KEY environment variable is missing or empty.">>)

\* a call of the single-message path that raised before it sent anything
Unsent(r, e) == [r EXCEPT !.st = "unsent", !.err = e]

\* the catch of the multi-candidate function, up to the await of the retry:
\* openai-utils.ts:172-176, claude-utils.ts:200-204, gemini-utils.ts:159-163.
\* The single-message function creates its own client: without a key it
\* raises before it sends anything and the error caught first is raised
Catch(e, reqs, msgs) ==
  LET provider == Dispatch(aiProvider)
      retry == SingleRequest("retry", provider, CallArgs(provider, msgs, Diff))
  IN /\ caught' = <<e>>
     /\ IF HasKey
        THEN /\ requests' = Append(reqs, retry)
             /\ pc' = "await_retry"
             /\ UNCHANGED <<scmInputBox, commitSuggestions, err, thrown>>
        ELSE /\ requests' = Append(reqs, Unsent(retry, ClientError(provider)))
             /\ Deliver(Raised(Rethrow(e, ClientError(provider))))

\* the requests of a fan-out
\* a fan-out whose style requests sample at the configured temperature
FanRequestsConfigured(strategy, provider, args, count, eager) ==
  IF strategy = "temperature"
  THEN LET temperatures == Slice0(Temperatures, count)
       IN [i \in 1..Len(temperatures) |->
             Request(provider, "fan", temperatures[i], args, TemperaturePayload(provider, args))]
  ELSE LET styles == Slice0(Styles, count)
       IN [i \in 1..Len(styles) |->
             Request(provider, "fan", getConfig("TEMPERATURE"), args,
                     StylePayload(provider, args, styles, i, eager))]

FanRequests(strategy, provider, args, count, eager) ==
  IF strategy = "temperature"
  THEN LET temperatures == Slice0(Temperatures, count)
       IN [i \in 1..Len(temperatures) |->
             Request(provider, "fan", temperatures[i], args, TemperaturePayload(provider, args))]
  ELSE LET styles == Slice0(Styles, count)
       IN [i \in 1..Len(styles) |->
             Request(provider, "fan", FixedTemperature, args,
                     StylePayload(provider, args, styles, i, eager))]

\* a temperature strategy that issues a request when the one before it has
\* completed: the first request alone is issued at the start
GenerateTemperatureOneByOne ==
  /\ pc = "generate"
  /\ HasKey
  /\ multipleSuggestions
  /\ suggestionStrategy = "temperature"
  /\ LET reqs == FanRequests("temperature", Dispatch(aiProvider), Args, suggestionCount, TRUE)
     IN /\ requests' = SubSeq(reqs, 1, Min(1, Len(reqs)))
        /\ IF reqs = <<>>
           THEN Deliver(Returned(<<>>))
           ELSE pc' = "await_all"
                /\ UNCHANGED <<scmInputBox, commitSuggestions, err, thrown>>
  /\ Frame
  /\ UNCHANGED <<messages, caught>>

\* openai-utils.ts:118-129, claude-utils.ts:153-166, gemini-utils.ts:111-124:
\* the requests of the temperature strategy are issued and awaited together
GenerateTemperature ==
  /\ pc = "generate"
  /\ HasKey
  /\ multipleSuggestions
  /\ suggestionStrategy = "temperature"
  /\ LET reqs == FanRequests("temperature", Dispatch(aiProvider), Args, suggestionCount, TRUE)
     IN /\ requests' = reqs
        /\ IF reqs = <<>>
           THEN Deliver(Returned(<<>>))
           ELSE pc' = "await_all"
                /\ UNCHANGED <<scmInputBox, commitSuggestions, err, thrown>>
  /\ Frame
  /\ UNCHANGED <<messages, caught>>

\* openai-utils.ts:134-162, claude-utils.ts:171-189, gemini-utils.ts:129-149
GenerateStyle ==
  /\ pc = "generate"
  /\ HasKey
  /\ multipleSuggestions
  /\ suggestionStrategy = "style"
  /\ \E eager \in BOOLEAN :
       LET reqs == FanRequests("style", Dispatch(aiProvider), Args, suggestionCount, eager)
       IN /\ requests' = reqs
          /\ messages' = ArgsAfterStyle(Dispatch(aiProvider), messages,
                                        Slice0(Styles, suggestionCount))
          /\ IF reqs = <<>>
             THEN Deliver(Returned(<<>>))
             ELSE pc' = "await_all"
                  /\ UNCHANGED <<scmInputBox, commitSuggestions, err, thrown>>
  /\ Frame
  /\ UNCHANGED caught

\* openai-utils.ts:86-105, claude-utils.ts:122-140, gemini-utils.ts:83-99
GenerateList ==
  /\ pc = "generate"
  /\ HasKey
  /\ multipleSuggestions
  /\ suggestionStrategy = "single_request"
  /\ requests' = <<Request(Dispatch(aiProvider), "list", FixedTemperature, Args,
                           ListPayload(Dispatch(aiProvider), Args, suggestionCount))>>
  /\ pc' = "await_list"
  /\ Frame
  /\ UNCHANGED <<scmInputBox, messages, caught, commitSuggestions, err, thrown>>

\* an unrecognised strategy served as the temperature strategy
GenerateOtherAsTemperature ==
  /\ pc = "generate"
  /\ HasKey
  /\ multipleSuggestions
  /\ suggestionStrategy \notin {"temperature", "style", "single_request"}
  /\ requests' = FanRequests("temperature", Dispatch(aiProvider), Args, 3, TRUE)
  /\ pc' = "await_all"
  /\ Frame
  /\ UNCHANGED <<scmInputBox, messages, caught, commitSuggestions, err, thrown>>

\* openai-utils.ts:168-169, claude-utils.ts:196-197, gemini-utils.ts:155-156:
\* no recognised strategy
GenerateOther ==
  /\ pc = "generate"
  /\ HasKey
  /\ multipleSuggestions
  /\ suggestionStrategy \notin {"temperature", "style", "single_request"}
  /\ requests' = <<SingleRequest("fallthrough", Dispatch(aiProvider), Args)>>
  /\ pc' = "await_fallthrough"
  /\ Frame
  /\ UNCHANGED <<scmInputBox, messages, caught, commitSuggestions, err, thrown>>

Settled(reqs) == \A i \in 1..Len(reqs) : reqs[i].st = "ok"

\* a request of the fan-out resolves; Promise.all resolves with the last one
\* and the responses are mapped to the candidates, in the order of the requests
FanResolve(i) ==
  /\ pc = "await_all"
  /\ requests[i].kind = "fan" /\ requests[i].st = "inflight"
  /\ \E resp \in Responses(aiProvider, "fan", i) :
       LET reqs == [requests EXCEPT ![i] = Resolved(@, resp)]
       IN /\ requests' = reqs
          /\ IF Settled(reqs)
             THEN Deliver(Returned(FanList(aiProvider, reqs)))
             ELSE UNCHANGED <<pc, scmInputBox, commitSuggestions, err, thrown>>
  /\ Frame
  /\ UNCHANGED <<messages, caught>>

\* a fan-out that waits for its other requests before it fails
FanRejectWaits(i) ==
  /\ pc = "await_all"
  /\ requests[i].kind = "fan" /\ requests[i].st = "inflight"
  /\ \E e \in SdkErrors(aiProvider, i) :
       LET reqs == [requests EXCEPT ![i] = Rejected(@, e)]
       IN IF \A k \in 1..Len(reqs) : reqs[k].st # "inflight"
          THEN Catch(e, reqs, messages)
          ELSE /\ requests' = reqs
               /\ UNCHANGED <<pc, caught, scmInputBox, commitSuggestions, err, thrown>>
  /\ Frame
  /\ UNCHANGED messages

\* a request of the fan-out rejects; Promise.all rejects with its error
FanReject(i) ==
  /\ pc = "await_all"
  /\ requests[i].kind = "fan" /\ requests[i].st = "inflight"
  /\ \E e \in SdkErrors(aiProvider, i) :
       Catch(e, [requests EXCEPT ![i] = Rejected(@, e)], messages)
  /\ Frame
  /\ UNCHANGED messages

\* a request of the fan-out settles after Promise.all has rejected: nothing
\* awaits it and nothing reads its outcome
FanLate(i) ==
  /\ pc # "await_all"
  /\ requests[i].kind = "fan" /\ requests[i].st = "inflight"
  /\ \/ requests' = [requests EXCEPT
                       ![i] = Resolved(@, Text(<<" ", MsgTok[i], "\n">>))]
     \/ requests' = [requests EXCEPT
                       ![i] = Rejected(@, Error(i, 401, "", 0, <<"401 Unauthorized">>))]
  /\ Frame
  /\ UNCHANGED <<pc, scmInputBox, messages, caught, commitSuggestions, err, thrown>>

\* openai-utils.ts:107-116, claude-utils.ts:142-152 and 196-197,
\* gemini-utils.ts:100-109: the answer of the single_request strategy
ListResolve ==
  /\ pc = "await_list"
  /\ \E resp \in Responses(aiProvider, "list", 1) :
       LET reqs == [requests EXCEPT ![1] = Resolved(@, resp)]
           single == SingleRequest("fallthrough", Dispatch(aiProvider), Args)
       IN IF aiProvider = "claude" /\ resp.shape # "text"
          THEN IF HasKey
               THEN /\ requests' = Append(reqs, single)
                    /\ pc' = "await_fallthrough"
                    /\ UNCHANGED <<scmInputBox, commitSuggestions, err, thrown,
                                   caught>>
               ELSE Catch(ClientError("claude"),
                          Append(reqs, Unsent(single, ClientError("claude"))),
                          messages)
          ELSE /\ requests' = reqs
               /\ Deliver(Returned(ListCandidates(1, resp.text, suggestionCount)))
               /\ UNCHANGED caught
  /\ Frame
  /\ UNCHANGED messages

ListReject ==
  /\ pc = "await_list"
  /\ \E e \in SdkErrors(aiProvider, 1) :
       Catch(e, [requests EXCEPT ![1] = Rejected(@, e)], messages)
  /\ Frame
  /\ UNCHANGED messages

\* the outcomes of the request i
Outcomes(r, provider, i) ==
  {Resolved(r, resp) : resp \in Responses(provider, r.kind, i)}
  \cup {Rejected(r, e) : e \in SdkErrors(provider, i)}

\* openai-utils.ts:169-170, claude-utils.ts:197-198, gemini-utils.ts:156-157:
\* the single message of the path of no strategy
FallthroughSettle ==
  /\ pc = "await_fallthrough"
  /\ LET i == Len(requests)
     IN \E r \in Outcomes(requests[i], aiProvider, i) :
          LET reqs == [requests EXCEPT ![i] = r]
              single == SingleResult(aiProvider, i, r)
          IN IF single.kind = "throw"
             THEN Catch(single.e, reqs, messages)
             ELSE /\ requests' = reqs
                  /\ Deliver(Returned(SingleList(aiProvider, single.list)))
                  /\ UNCHANGED caught
  /\ Frame
  /\ UNCHANGED messages

\* a retry that is retried when it fails
RetrySettleAgain ==
  /\ pc = "await_retry"
  /\ LET i == Len(requests)
     IN \E r \in Outcomes(requests[i], aiProvider, i) :
          LET single == SingleResult(aiProvider, i, r)
              reqs == [requests EXCEPT ![i] = r]
          IN IF single.kind = "throw"
             THEN IF Len(requests) < 5
                  THEN Catch(caught[1], reqs, messages)
                  ELSE requests' = reqs /\ Deliver(Raised(caught[1]))
                       /\ UNCHANGED caught
             ELSE /\ requests' = reqs
                  /\ Deliver(Returned(SingleList(aiProvider, single.list)))
                  /\ UNCHANGED caught
  /\ Frame
  /\ UNCHANGED messages

\* openai-utils.ts:176-180, claude-utils.ts:204-208, gemini-utils.ts:163-167:
\* the retry answers, or the error caught first is raised
RetrySettle ==
  /\ pc = "await_retry"
  /\ LET i == Len(requests)
     IN \E r \in Outcomes(requests[i], aiProvider, i) :
          LET single == SingleResult(aiProvider, i, r)
          IN /\ requests' = [requests EXCEPT ![i] = r]
             /\ IF single.kind = "throw"
                THEN Deliver(Raised(Rethrow(caught[1], single.e)))
                ELSE Deliver(Returned(SingleList(aiProvider, single.list)))
  /\ Frame
  /\ UNCHANGED <<messages, caught>>

\* generate-commit-msg.ts:209, 216, 222 and 226-230
DirectSettle ==
  /\ pc = "await_direct"
  /\ \E r \in Outcomes(requests[1], aiProvider, 1) :
       LET single == SingleResult(aiProvider, 1, r)
       IN /\ requests' = <<r>>
          /\ IF single.kind = "throw"
             THEN Raise(single.e)
             ELSE SetCommitMessage(single.list[1].text)
  /\ Frame
  /\ UNCHANGED <<messages, caught, commitSuggestions>>

\* generate-commit-msg.ts:185-197 and 226-230: the picker is answered
\* (selected = 0: dismissed)
Picker ==
  /\ pc = "picker"
  /\ \E item \in 0..Len(commitSuggestions[1]) :
       /\ selected' = <<item>>
       /\ SetCommitMessage(IF item # 0 THEN commitSuggestions[1][item].text
                           ELSE commitSuggestions[1][1].text)
  /\ UNCHANGED <<config, aiProvider, diffMode, multipleSuggestions,
                 suggestionCount, suggestionStrategy, gitOutput, diffResult,
                 previous, messages, requests, caught, commitSuggestions>>

Next ==
  \/ GetDiff
  \/ CheckDiff
  \/ KeyMissing
  \/ GenerateSingle
  \/ GenerateTemperature
  \/ GenerateStyle
  \/ GenerateList
  \/ GenerateOther
  \/ \E i \in 1..Len(requests) : FanResolve(i)
  \/ \E i \in 1..Len(requests) : FanReject(i)
  \/ \E i \in 1..Len(requests) : FanLate(i)
  \/ ListResolve
  \/ ListReject
  \/ FallthroughSettle
  \/ RetrySettle
  \/ DirectSettle
  \/ Picker

Spec == Init /\ [][Next]_vars

----------------------------------------------------------------------------
(* The invocation while the user edits the settings *)

\* the settings after the user has changed one of them: another provider,
\* another model name, another temperature, another key or no key
SettingsEdits(cfg) ==
  ( {[cfg EXCEPT !.AI_PROVIDER = provider] : provider \in Providers}
    \cup {[cfg EXCEPT !.MODEL = model] : model \in {"model-a", "model-b"}}
    \cup {[cfg EXCEPT !.TEMPERATURE = t] : t \in {DefaultTemperature, 2}}
    \cup {[cfg EXCEPT !.API_KEY = key] : key \in {"", "key-a", "key-b"}} )
  \ {cfg}

InitConfig ==
  /\ pc = "start"
  /\ config \in CallConfigs
  /\ scmInputBox = <<>>
  /\ NotStarted

\* the user selects another provider in the settings; the invocation is at
\* one of its awaits (generate-commit-msg.ts:76, 84-104, 152-222)
ConfigChange ==
  /\ pc # "done"
  /\ config.EDITS < MaxEdits
  /\ \E edited \in SettingsEdits(config) :
       config' = [edited EXCEPT !.EDITS = config.EDITS + 1]
  /\ UNCHANGED <<pc, aiProvider, diffMode, multipleSuggestions, suggestionCount,
                 suggestionStrategy, gitOutput, diffResult, scmInputBox, messages,
                 requests, caught, commitSuggestions, err, thrown, previous, selected>>

NextConfig == Next \/ ConfigChange

SpecConfig == InitConfig /\ [][NextConfig]_vars

----------------------------------------------------------------------------
(* The functions of the providers called on their own: with or without the
   API key, and a second time with the same arguments *)

\* a caller hands a conversation to the function of the provider
InitCalls ==
  /\ pc = "generate"
  /\ config \in CallConfigs
  /\ aiProvider = config.AI_PROVIDER
  /\ diffMode = config.DIFF_MODE
  /\ multipleSuggestions = config.MULTIPLE_SUGGESTIONS
  /\ suggestionCount = config.SUGGESTION_COUNT
  /\ suggestionStrategy = config.SUGGESTION_STRATEGY
  /\ gitOutput = [staged |-> <<"diff --git">>, unstaged |-> <<>>, fails |-> FALSE]
  /\ diffResult = [diff |-> <<"diff --git">>, error |-> NoError]
  /\ scmInputBox = <<>>
  /\ messages \in {generateCommitMessageChatCompletionPrompt(init, <<"diff --git">>, <<>>) :
                      init \in MainCommitPrompts}
  /\ requests = <<>>
  /\ caught = <<>>
  /\ commitSuggestions = <<>>
  /\ err = <<>>
  /\ thrown = <<>>
  /\ previous = <<>>
  /\ selected = <<>>

\* the client cannot be created.  openai-utils.ts:55 and 81,
\* claude-utils.ts:28 and 115: the error leaves the function.
\* gemini-utils.ts:42 and 62: GeminiAPI raises it again from its catch.
\* gemini-utils.ts:79 and 159-167: the client of the multi-candidate function
\* is created inside the try, so its catch calls GeminiAPI, which raises
\* before it sends anything, and the error caught first is raised
CreateClientFails ==
  /\ pc = "generate"
  /\ ~HasKey
  /\ LET provider == Dispatch(aiProvider)
         error == ClientError(provider)
     IN IF multipleSuggestions /\ provider = "gemini"
        THEN /\ caught' = <<error>>
             /\ requests' = <<Unsent(SingleRequest("retry", provider, Args),
                                     ClientError(provider))>>
             /\ Deliver(Raised(Rethrow(error, ClientError(provider))))
        ELSE /\ Deliver(Raised(error))
             /\ UNCHANGED <<requests, caught>>
  /\ Frame
  /\ UNCHANGED messages

\* the multi-candidate function has returned and is called once more with
\* the same conversation, count and strategy
Again ==
  /\ pc = "done"
  /\ multipleSuggestions
  /\ commitSuggestions # <<>>
  /\ previous = <<>>
  /\ previous' = <<Len(commitSuggestions[1])>>
  /\ selected' = <<>>
  /\ messages' = IF requests # <<>> /\ Dispatch(aiProvider) # "claude"
                 THEN requests[1].args ELSE messages
  /\ requests' = <<>>
  /\ caught' = <<>>
  /\ commitSuggestions' = <<>>
  /\ err' = <<>>
  /\ thrown' = <<>>
  /\ scmInputBox' = <<>>
  /\ pc' = "generate"
  /\ UNCHANGED <<config, aiProvider, diffMode, multipleSuggestions,
                 suggestionCount, suggestionStrategy, gitOutput, diffResult>>

NextCalls ==
  \/ CreateClientFails
  \/ GenerateSingle
  \/ GenerateTemperature
  \/ GenerateStyle
  \/ GenerateList
  \/ GenerateOther
  \/ \E i \in 1..Len(requests) : FanResolve(i)
  \/ \E i \in 1..Len(requests) : FanReject(i)
  \/ \E i \in 1..Len(requests) : FanLate(i)
  \/ ListResolve
  \/ ListReject
  \/ FallthroughSettle
  \/ RetrySettle
  \/ DirectSettle
  \/ Picker
  \/ Again

SpecCalls == InitCalls /\ [][NextCalls]_vars

\* the synchronous start of a called function: it runs to its first await
Start ==
  \/ CreateClientFails
  \/ GenerateSingle
  \/ GenerateTemperature
  \/ GenerateStyle
  \/ GenerateList
  \/ GenerateOther

\* a provider request in flight completes: it resolves or rejects
Settle ==
  \/ \E i \in 1..Len(requests) : FanResolve(i) \/ FanReject(i) \/ FanLate(i)
  \/ ListResolve
  \/ ListReject
  \/ FallthroughSettle
  \/ RetrySettle
  \/ DirectSettle

\* the calls of SpecCalls when the called function runs and every provider
\* request eventually completes
SpecLive == SpecCalls /\ WF_vars(Start) /\ WF_vars(Settle)

----------------------------------------------------------------------------
(* The classification of generateCommitWithClaude, applied to the failures
   of one request *)

\* the failures of a request: HTTP statuses (0: none), error codes, messages
FailureStatuses == {0, 400, 401, 403, 404, 429, 499, 500, 502, 503, 529}
FailureCodes == {"", "ENOTFOUND", "ECONNREFUSED", "ETIMEDOUT"}
FailureMessages == {<<>>, <<"socket hang up">>}

Failures ==
  {Error(1, status, code, 0, message) :
     status \in FailureStatuses, code \in FailureCodes, message \in FailureMessages}

\* generateCommitWithClaude has sent its request and the request has failed
InitClassify ==
  /\ pc = "classify"
  /\ config = Config("claude", "staged", FALSE, 3, "temperature", TRUE)
  /\ aiProvider = "claude"
  /\ diffMode = "staged"
  /\ multipleSuggestions = FALSE
  /\ suggestionCount = 3
  /\ suggestionStrategy = "temperature"
  /\ gitOutput = [staged |-> <<"diff --git">>, unstaged |-> <<>>, fails |-> FALSE]
  /\ diffResult = [diff |-> <<"diff --git">>, error |-> NoError]
  /\ scmInputBox = <<>>
  /\ messages \in {generateCommitMessageChatCompletionPrompt(init, <<"diff --git">>, <<>>) :
                      init \in MainCommitPrompts}
  /\ \E e \in Failures :
       requests = <<Rejected(
                     SingleRequest("direct", "claude",
                                   CallArgs("claude", messages, <<"diff --git">>)), e)>>
  /\ caught = <<>>
  /\ commitSuggestions = <<>>
  /\ err = <<>>
  /\ thrown = <<>>
  /\ previous = <<>>
  /\ selected = <<>>

\* claude-utils.ts:54-74 and generate-commit-msg.ts:231-255: the catch of
\* generateCommitWithClaude raises the classified error
Classify ==
  /\ pc = "classify"
  /\ Raise(SingleResult("claude", 1, requests[1]).e)
  /\ Frame
  /\ UNCHANGED <<messages, requests, caught, commitSuggestions>>

NextClassify == Classify

SpecClassify == InitClassify /\ [][NextClassify]_vars

----------------------------------------------------------------------------
(* Properties *)

\* the multi-candidate function of the provider has been called
Multi == multipleSuggestions /\ (requests # <<>> \/ commitSuggestions # <<>>)

Indices(kinds) == {i \in 1..Len(requests) : requests[i].kind \in kinds}

Failed(i) == requests[i].st = "err"
Succeeded(i) == requests[i].st = "ok"

\* the single-message path of the request i has raised / has returned
SingleRaised(i) ==
  /\ requests[i].st # "inflight"
  /\ SingleResult(aiProvider, i, requests[i]).kind = "throw"
SingleReturned(i) ==
  /\ requests[i].st # "inflight"
  /\ SingleResult(aiProvider, i, requests[i]).kind = "return"

\* the error the strategy path raised through the request i
StrategyError(i) ==
  IF requests[i].kind = "fallthrough"
  THEN SingleResult(aiProvider, i, requests[i]).e
  ELSE requests[i].err

\* C1: when the strategy path raises E1 and the retry raises E2, the error
\* the multi-candidate function raises is E1, the error caught first, for
\* every provider and strategy, and it is not E2.
C1_OriginalErrorRaised ==
  \A i \in Indices({"retry"}) :
    SingleRaised(i) =>
      /\ err = caught
      /\ err # <<SingleResult(aiProvider, i, requests[i]).e>>
      /\ \E k \in Indices({"fan", "list", "fallthrough"}) :
           /\ requests[k].st # "inflight"
           /\ err = <<StrategyError(k)>>
           /\ err[1].src = k

C1_Witness ==
  /\ pc = "done"
  /\ aiProvider = "claude"
  /\ suggestionStrategy = "style"
  /\ \E i \in Indices({"retry"}) : SingleRaised(i)
  /\ \E k \in Indices({"fan"}) : Failed(k) /\ err = <<requests[k].err>>

\* C2: when a request of a temperature or style fan-out fails and the retry
\* succeeds, the list returned has exactly one element, made of the answer
\* of the retry, and holds the answer of no request of the fan-out.
C2_RetryAloneReturned ==
  \A i \in Indices({"retry"}) :
    ((\E k \in Indices({"fan"}) : Failed(k)) /\ SingleReturned(i)) =>
      /\ commitSuggestions # <<>>
      /\ Len(commitSuggestions[1]) = 1
      /\ commitSuggestions[1][1].src = i
      /\ commitSuggestions[1]
           = SingleList(aiProvider,
                        SingleResult(aiProvider, i, requests[i]).list)
      /\ \A c \in 1..Len(commitSuggestions[1]) :
           commitSuggestions[1][c].src \notin Indices({"fan"})

C2_Witness ==
  /\ pc = "done"
  /\ Len(requests) = 4
  /\ Succeeded(1) /\ Failed(2) /\ Succeeded(3) /\ Succeeded(4)
  /\ requests[4].kind = "retry"
  /\ requests[1].resp.text # <<>>
  /\ commitSuggestions = <<<<Candidate(4, <<" ", "m4", "\n">>)>>>>

\* the git commands of the mode have run and printed nothing
NoChangesInScope ==
  /\ pc # "start"
  /\ ~gitOutput.fails
  /\ CASE diffMode = "staged" -> gitOutput.staged = <<>>
       [] diffMode = "unstaged" -> gitOutput.unstaged = <<>>
       [] OTHER -> gitOutput.staged = <<>> /\ gitOutput.unstaged = <<>>

\* C3: in each of the three diff modes, when the repository has no changes
\* in the scope of the mode, generateCommitMsg raises an error and issues no
\* provider request.
C3_NoChangesNoRequest ==
  NoChangesInScope =>
    /\ requests = <<>>
    /\ pc = "done" => thrown # <<>>

\* C4: when the diff text is empty, whitespace-only or contains "No changes",
\* generateCommitMsg raises an error and no provider request is issued, in
\* single and in multi-candidate mode and for every provider.
C4_EmptyDiffRaises ==
  (pc \notin {"start", "check"}
     /\ (Diff = <<>> \/ Trim(Diff) = <<>> \/ Includes(Diff, <<"No", " ", "changes">>)))
  => (pc = "done" /\ thrown # <<>> /\ requests = <<>> /\ messages = <<>>)

C4_Witness ==
  /\ pc = "done"
  /\ Diff = <<"diff --git", "\n", "+", "No", " ", "changes">>
  /\ multipleSuggestions
  /\ aiProvider = "gemini"
  /\ thrown = <<<<"No changes staged for commit">>>>

\* the style instructions that occur in a request
StylesSent(sent) ==
  {k \in 1..Len(Styles) :
     \E t \in 1..Len(sent) : \E j \in 1..Len(sent[t].content) :
       sent[t].content[j] = Styles[k]}

\* C5: in the style strategy the conversation of the i-th request holds the
\* i-th style instruction and no other, for every provider and count, with
\* or without a system turn in the conversation (stated here for the counts
\* from 1 on).
C5_OneStylePerRequest ==
  (Multi /\ suggestionStrategy = "style" /\ suggestionCount >= 1) =>
    \A i \in Indices({"fan"}) : StylesSent(requests[i].sent) = {i}

\* C6: the retry after a failed strategy path is called with a conversation
\* equal, turn by turn, to the one the caller passed in, which the strategy
\* path has left unchanged (stated here for the counts from 1 on).
C6_RetryWithCallersConversation ==
  suggestionCount >= 1 =>
    \A i \in Indices({"retry"}) :
      /\ requests[i].args = requests[1].args
      /\ Args = requests[1].args

\* C7: the single-message path is invoked at most once in an execution of a
\* multi-candidate function, whatever the strategy and the responses.
C7_SinglePathOnce ==
  Multi => Cardinality(Indices({"fallthrough", "retry"})) <= 1

\* C7 as amended: the retry is made at most once and the path of no strategy
\* at most once, so the single-message path is invoked at most twice; the
\* retry is the last request issued, and once it has settled the function
\* has returned or raised.
C7_RetryOnce ==
  Multi =>
    /\ Cardinality(Indices({"retry"})) <= 1
    /\ Cardinality(Indices({"fallthrough"})) <= 1
    /\ \A i \in Indices({"retry"}) :
         /\ i = Len(requests)
         /\ requests[i].st # "inflight" => pc \in {"picker", "done"}
         /\ SingleRaised(i) => pc = "done" /\ err # <<>>

C7_Witness ==
  /\ pc = "done"
  /\ suggestionStrategy = "other"
  /\ Len(requests) = 2
  /\ requests[1].kind = "fallthrough" /\ SingleRaised(1)
  /\ requests[2].kind = "retry" /\ SingleRaised(2)

AllFanSucceeded ==
  /\ Multi
  /\ pc # "await_all"
  /\ \A i \in 1..Len(requests) : requests[i].kind = "fan" /\ Succeeded(i)

\* C8: in the temperature strategy with count >= 1, when all requests
\* succeed the list has min(count, 3) candidates and the i-th is made of the
\* response of the request issued with the i-th of 0.3, 0.7, 0.9, in every
\* order of completion.
C8_TemperatureOrder ==
  (AllFanSucceeded /\ suggestionStrategy = "temperature" /\ suggestionCount >= 1) =>
    /\ commitSuggestions # <<>>
    /\ Len(commitSuggestions[1]) = Min(suggestionCount, 3)
    /\ Len(requests) = Min(suggestionCount, 3)
    /\ \A i \in 1..Len(commitSuggestions[1]) :
         /\ commitSuggestions[1][i].src = i
         /\ requests[i].temperature = <<3, 7, 9>>[i]
         /\ commitSuggestions[1][i].text
              = (IF Truthy(Trim(requests[i].resp.text))
                 THEN Trim(requests[i].resp.text)
                 ELSE IF aiProvider = "claude" /\ requests[i].resp.shape = "text"
                 THEN <<>> ELSE <<"Error generating message">>)

C8_Witness ==
  /\ AllFanSucceeded /\ suggestionStrategy = "temperature"
  /\ suggestionCount = 4
  /\ commitSuggestions
       = <<<<Candidate(1, <<"m1">>), Candidate(2, <<"Error generating message">>),
             Candidate(3, <<"m3">>)>>>>

StyleListOf(n) ==
  /\ commitSuggestions # <<>>
  /\ Len(commitSuggestions[1]) = n
  /\ Len(requests) = n
  /\ \A i \in 1..Len(commitSuggestions[1]) :
       /\ commitSuggestions[1][i].src = i
       /\ i \in StylesSent(requests[i].sent)
       /\ requests[i].temperature = 7

\* C9: in the style strategy, for every count, when all requests succeed the
\* list has min(count, 3) candidates, the i-th made by the i-th style
\* instruction of concise, detailed, technical.
C9_StyleOrder ==
  (AllFanSucceeded /\ suggestionStrategy = "style") =>
    StyleListOf(Min(suggestionCount, 3))

\* C9 as amended: the same for every count >= 0; a negative count leaves
\* max(0, 3 + count) candidates, since slice(0, count) then counts from the
\* end of the list of styles.
C9_StyleOrderFromZero ==
  (AllFanSucceeded /\ suggestionStrategy = "style") =>
    StyleListOf(IF suggestionCount >= 0 THEN Min(suggestionCount, 3)
                ELSE Max(0, 3 + suggestionCount))

C9_Witness ==
  /\ AllFanSucceeded /\ suggestionStrategy = "style"
  /\ suggestionCount = 4
  /\ aiProvider = "gemini"
  /\ Len(commitSuggestions[1]) = 3
  /\ commitSuggestions[1][3].text = <<"m3">>

\* C10: a multi-candidate call that returns returns a list of at least one
\* element and, for count >= 1, of at most count elements, for every
\* provider, strategy and count.
C10_NeverEmpty ==
  (Multi /\ commitSuggestions # <<>>) =>
    /\ Len(commitSuggestions[1]) >= 1
    /\ suggestionCount >= 1 => Len(commitSuggestions[1]) <= suggestionCount

\* the text of a response: a content block that is no text has none
TextOf(resp) == IF resp.shape = "text" THEN resp.text ELSE <<>>

\* C11: in the temperature and style strategies, for each provider, the list
\* returned has as many candidates as requests were issued; the candidate at
\* the position of a response whose text is empty or only whitespace is the
\* literal "Error generating message", and the candidate at the position of
\* any other response is the trimmed text of that response.
C11_PlaceholderForEmpty ==
  (AllFanSucceeded /\ suggestionStrategy \in {"temperature", "style"}
     /\ suggestionCount >= 1) =>
    /\ Len(commitSuggestions[1]) = Len(requests)
    /\ \A i \in 1..Len(requests) :
         /\ commitSuggestions[1][i].src = i
         /\ commitSuggestions[1][i].text
              = IF Trim(TextOf(requests[i].resp)) = <<>>
                THEN <<"Error generating message">>
                ELSE Trim(TextOf(requests[i].resp))

\* the single_request strategy has parsed the text of its answer
ListParsed ==
  /\ Multi
  /\ commitSuggestions # <<>>
  /\ Len(requests) = 1
  /\ requests[1].kind = "list" /\ Succeeded(1)
  /\ requests[1].resp.shape = "text"

\* the lines of the answer whose trimmed form begins with '<integer>.'
MatchingLines ==
  LET lines == SplitLines(Trim(requests[1].resp.text))
      Matches(line) == NumberPrefix(Trim(line)) > 0
  IN SelectSeq(lines, Matches)

\* t is what is left of the line after some of its beginning is removed
IsRestOf(t, line) ==
  \E j \in 1..(Len(line) + 1) : t = Trim(SubSeq(line, j, Len(line)))

\* C12: in the single_request strategy, for every count >= 1, the parser
\* returns the whole trimmed text as a single element if and only if fewer
\* than 2 lines of the text match the leading '<integer>.' pattern; when 2 or
\* more lines match it returns the first min(count, number of matching
\* lines) of them, in the order of the text.
C12_WholeTextIffFewerThanTwo ==
  (ListParsed /\ suggestionCount >= 1) =>
    LET list == commitSuggestions[1]
        whole == <<Candidate(1, Trim(requests[1].resp.text))>>
    IN /\ (list = whole) <=> (Len(MatchingLines) < 2)
       /\ Len(MatchingLines) >= 2 =>
            /\ Len(list) = Min(suggestionCount, Len(MatchingLines))
            /\ \A k \in 1..Len(list) : IsRestOf(list[k].text, MatchingLines[k])

\* the line without its blanks at both ends and without its '<integer>. '
WithoutNumber(line) ==
  LET t == Trim(line)
  IN Trim(SubSeq(t, NumberPrefix(t) + 1, Len(t)))

\* C13: in numbered-list parsing every kept line, a line with blanks before
\* its number included, gives a candidate that is the line without its
\* '<integer>. ' prefix; no candidate of a list of two or more still begins
\* with the numeric prefix of its line.
C13_PrefixRemoved ==
  (ListParsed /\ Len(commitSuggestions[1]) >= 2) =>
    \A k \in 1..Len(commitSuggestions[1]) :
      /\ commitSuggestions[1][k].text = WithoutNumber(MatchingLines[k])
      /\ NumberPrefix(commitSuggestions[1][k].text) = 0

\* the Claude answer of the single_request strategy holds no text
ListWithoutText ==
  /\ Multi
  /\ pc # "await_list"
  /\ aiProvider = "claude"
  /\ suggestionStrategy = "single_request"
  /\ requests[1].kind = "list" /\ Succeeded(1)
  /\ requests[1].resp.shape # "text"

\* what the single-message path returns for the text of a response
MessageOf(provider, text) == IF provider = "claude" THEN Trim(text) ELSE text

C15_ClaudeErrorsClassified ==
  (aiProvider = "claude" /\ err # <<>> /\ err[1].src # 0) =>
    LET sdk == requests[err[1].src].err
    IN (Failed(err[1].src) /\ (sdk.status \in {401, 429, 400} \/ sdk.status >= 500)) =>
         /\ err[1].message
              = CASE sdk.status = 401 ->
                       <<"Claude API authentication failed. Please check your API key.">>
                  [] sdk.status = 429 ->
                       <<"Claude API rate limit exceeded. Please try again later.">>
                  [] sdk.status = 400 ->
                       <<"Claude API request was malformed. Please check your configuration.">>
                  [] OTHER -> <<"Claude API server error. Please try again later.">>
         /\ err[1].message # sdk.message

\* the four messages of the HTTP statuses generateCommitWithClaude knows
StatusMessages ==
  { <<"Claude API authentication failed. Please check your API key.">>,
    <<"Claude API rate limit exceeded. Please try again later.">>,
    <<"Claude API request was malformed. Please check your configuration.">>,
    <<"Claude API server error. Please try again later.">> }

\* C16: the classification of generateCommitWithClaude gives every failure
\* one message: the authentication message for status 401, the rate-limit
\* message for 429, the malformed-request message for 400, the server-error
\* message for every status >= 500; the four are pairwise distinct, and
\* every other failure gets the network-error message or the generic
\* message, which are none of the four.
C16_ClassificationTotal ==
  /\ Cardinality(StatusMessages) = 4
  /\ pc = "done" =>
       LET e == requests[1].err
           m == err[1].message
       IN /\ Len(err) = 1 /\ m # <<>>
          /\ e.status = 401 =>
               m = <<"Claude API authentication failed. Please check your API key.">>
          /\ e.status = 429 =>
               m = <<"Claude API rate limit exceeded. Please try again later.">>
          /\ e.status = 400 =>
               m = <<"Claude API request was malformed. Please check your configuration.">>
          /\ e.status >= 500 =>
               m = <<"Claude API server error. Please try again later.">>
          /\ (e.status \notin {401, 429, 400} /\ e.status < 500) =>
               /\ m \notin StatusMessages
               /\ \/ m = <<"Network error. Please check your internet connection.">>
                  \/ /\ Head(m) = "Claude API error: "
                     /\ e.code \notin {"ENOTFOUND", "ECONNREFUSED"}
                     /\ Tail(m) = IF e.message = <<>> THEN <<"Unknown error">>
                                  ELSE e.message

C16_Witness ==
  /\ pc = "done"
  /\ requests[1].err.status = 529
  /\ requests[1].err.code = "ECONNREFUSED"
  /\ err[1].message = <<"Claude API server error. Please try again later.">>
  /\ thrown = <<<<"Claude", " API error: ",
                  "Claude API server error. Please try again later.">>>>

\* the name of the provider, as the messages of the extension write it
ProviderName(provider) ==
  CASE provider = "gemini" -> "Gemini"
    [] provider = "claude" -> "Claude"
    [] OTHER -> "OpenAI"

\* C17: for every provider and every failure of the generation (missing
\* key, failed transport, HTTP status, empty result), the error
\* generateCommitMsg raises has a message that names the provider in use.
C17_ErrorNamesProvider ==
  (pc = "done" /\ err # <<>>) =>
    /\ Len(thrown) = 1
    /\ \E k \in 1..Len(thrown[1]) : thrown[1][k] = ProviderName(aiProvider)

\* C18: when the API key of the provider is absent, each provider's single
\* and multi-candidate function raises a configuration error, issues no
\* provider request and does not enter the retry of the single-candidate
\* path.
C18_NoKeyNoRequestNoRetry ==
  (pc = "done" /\ ~HasKey) =>
    /\ err = <<ClientError(aiProvider)>>
    /\ \A i \in 1..Len(requests) : requests[i].st = "unsent"
    /\ caught = <<>>
    /\ Indices({"retry"}) = {}

\* C20: two calls of a multi-candidate function with the same diff,
\* conversation, provider, strategy and count that both return a list
\* return lists of the same length, whatever the provider answers, and
\* neither list is empty.
C20_SameLength ==
  (previous # <<>> /\ commitSuggestions # <<>>) =>
    /\ Len(commitSuggestions[1]) = previous[1]
    /\ Len(commitSuggestions[1]) >= 1
    /\ previous[1] >= 1

\* C19: within one invocation of generateCommitMsg every provider request,
\* the requests of a fan-out and the retry included, is sent to the provider
\* the invocation read from the settings when it began, also when the
\* provider of the settings is changed while requests are in flight.
C19_OneProvider ==
  pc # "start" =>
    \A i \in 1..Len(requests) : requests[i].provider = aiProvider

C19_Witness ==
  /\ pc = "await_retry"
  /\ aiProvider = "claude"
  /\ config.AI_PROVIDER = "gemini"
  /\ Len(requests) = 3
  /\ requests[1].kind = "fan" /\ Failed(1)
  /\ requests[2].kind = "fan" /\ requests[2].st = "inflight"
  /\ requests[3].kind = "retry" /\ requests[3].provider = "claude"

\* the request i of the fan-out fails in this step, while the fan-out is awaited
FailsNow(i) ==
  /\ pc = "await_all"
  /\ requests[i].kind = "fan" /\ requests[i].st = "inflight"
  /\ Len(requests') >= i /\ requests'[i].st = "err"

\* C22: a temperature or style fan-out of N requests completes successfully
\* only after all N requests have completed; as soon as one request fails
\* the fan-out fails with the error of that request, the first to fail,
\* without waiting for the requests still in flight, and the retry is
\* started in the same step.
C22_FailFast ==
  /\ [](/\ pc = "await_all" =>
             /\ commitSuggestions = <<>> /\ caught = <<>>
             /\ \A k \in 1..Len(requests) : requests[k].st # "err"
        /\ (commitSuggestions # <<>> /\ Indices({"fan"}) # {}
              /\ Indices({"retry"}) = {}) =>
             \A k \in Indices({"fan"}) : Succeeded(k))
  /\ [][\A i \in 1..Len(requests) :
          FailsNow(i) =>
            /\ \A k \in 1..Len(requests) : requests[k].st # "err"
            /\ caught' = <<requests'[i].err>>
            /\ caught'[1].src = i
            /\ pc' = "await_retry"
            /\ Len(requests') = Len(requests) + 1
            /\ requests'[Len(requests')].kind = "retry"
            /\ requests'[Len(requests')].st = "inflight"
            /\ \A k \in 1..Len(requests) : k # i => requests'[k] = requests[k]
     ]_vars

C22_Witness ==
  /\ pc = "await_retry"
  /\ Len(requests) = 4
  /\ requests[1].st = "inflight"
  /\ Failed(2) /\ caught = <<requests[2].err>>
  /\ requests[3].st = "inflight"
  /\ requests[4].kind = "retry" /\ requests[4].st = "inflight"

\* C23: in the temperature and style strategies all min(count, 3) requests
\* are issued before the response of any of them is consumed: whenever the
\* invocation has a request at all, the whole fan-out has been issued, and
\* it was issued in one step with every request in flight.
C23_IssuedTogether ==
  /\ [](( /\ Multi
          /\ suggestionStrategy \in {"temperature", "style"}
          /\ suggestionCount >= 1
          /\ requests # <<>> ) =>
         /\ Len(requests) >= Min(suggestionCount, 3)
         /\ Indices({"fan"}) = 1..Min(suggestionCount, 3))
  /\ [][(pc = "generate" /\ pc' = "await_all") =>
          \A i \in 1..Len(requests') : requests'[i].st = "inflight"]_vars

C23_Witness ==
  /\ pc = "await_all"
  /\ aiProvider = "gemini"
  /\ suggestionStrategy = "style"
  /\ suggestionCount = 4
  /\ Len(requests) = 3
  /\ requests[1].st = "inflight" /\ requests[2].st = "inflight"
  /\ requests[3].st = "inflight"

\* the payload asks for the technical version
AsksTechnical(sent) ==
  \E k \in 1..Len(sent) : \E j \in 1..Len(sent[k].content) :
    sent[k].content[j] \in {"3. A technical version", "A technical version"}

\* the single_request strategy has issued its request, the first of the
\* invocation and the only one of its kind
OneListRequest ==
  /\ requests # <<>>
  /\ Indices({"list"}) = {1}
  /\ Indices({"fan"}) = {}
  /\ AsksTechnical(requests[1].sent) <=> suggestionCount > 2

\* C24: the single_request strategy issues exactly one provider request on
\* its strategy path, for every count; the instruction of that request asks
\* for the third, technical version only if count > 2; after that request
\* at most one more request, the fallback, is issued.
C24_OneRequestOneFallback ==
  (Multi /\ suggestionStrategy = "single_request") =>
    /\ OneListRequest
    /\ Len(requests) <= 2

\* C24 as amended: the same, except that a Claude answer without a text
\* block is followed by one call of the single-message path before the
\* fallback: at most one fall-through request, Claude's only, and at most
\* one retry follow, the retry last; an OpenAI or Gemini invocation issues
\* at most two requests.  Claude's instruction keeps the bare item number
\* "3. " when count <= 2.
C24_OneRequestThenSinglePath ==
  (Multi /\ suggestionStrategy = "single_request") =>
    /\ OneListRequest
    /\ Cardinality(Indices({"retry"})) <= 1
    /\ Cardinality(Indices({"fallthrough"})) <= 1
    /\ Indices({"retry"}) \subseteq {Len(requests)}
    /\ Indices({"fallthrough"}) \subseteq {2}
    /\ Indices({"fallthrough"}) # {} => ListWithoutText
    /\ aiProvider # "claude" => Len(requests) <= 2
    /\ aiProvider = "claude" =>
         \E j \in 1..Len(requests[1].sent[2].content) :
           requests[1].sent[2].content[j] = "3. "

C24_Witness ==
  /\ pc = "done"
  /\ aiProvider = "claude"
  /\ suggestionStrategy = "single_request"
  /\ suggestionCount = 2
  /\ Len(requests) = 3
  /\ requests[1].kind = "list" /\ Succeeded(1)
  /\ requests[2].kind = "fallthrough" /\ Failed(2)
  /\ requests[3].kind = "retry" /\ Succeeded(3)
  /\ ~AsksTechnical(requests[1].sent)

\* C27: when generateCommitMsg raises, for whatever reason (diff error,
\* empty diff, missing key, provider failure after the fallback, empty
\* result), the value of the SCM input box is what it was before the
\* invocation: the box is changed only by the step that ends the invocation
\* without an error, and nothing changes once the invocation has ended.
C27_BoxUnchangedOnRaise ==
  /\ [](thrown # <<>> => pc = "done")
  /\ [][scmInputBox' # scmInputBox => (pc' = "done" /\ thrown' = <<>>)]_vars
  /\ [][pc = "done" =>
          (pc' = "done" /\ thrown' = thrown /\ scmInputBox' = scmInputBox)]_vars

C27_Witness ==
  /\ pc = "done"
  /\ scmInputBox = <<" ", "fixes #12">>
  /\ ~multipleSuggestions
  /\ Len(requests) = 1 /\ Succeeded(1)
  /\ err = <<FailedToGenerate>>
  /\ thrown # <<>>

\* C28: whenever generateCommitMsg completes without raising in
\* multi-candidate mode, the value written to the SCM input box is an
\* element of the list the multi-candidate function returned (stated for
\* counts >= 1, where the list should never be empty).
C28_WrittenIsCandidate ==
  (pc = "done" /\ Multi /\ thrown = <<>> /\ suggestionCount >= 1) =>
    /\ commitSuggestions # <<>>
    /\ \E k \in 1..Len(commitSuggestions[1]) :
         scmInputBox = commitSuggestions[1][k].text

InFlight == {i \in 1..Len(requests) : requests[i].st = "inflight"}

\* C29: at every moment of a multi-candidate invocation at most 3 provider
\* requests of the invocation are in flight, the requests of the fan-out
\* that are still in flight and the retry counted together.
C29_AtMostThreeInFlight ==
  multipleSuggestions => Cardinality(InFlight) <= 3

C29_Witness ==
  /\ multipleSuggestions
  /\ pc = "await_retry"
  /\ suggestionCount = 4
  /\ Len(requests) = 4
  /\ Failed(1)
  /\ InFlight = {2, 3, 4}
  /\ requests[4].kind = "retry"

\* C21: in multi-candidate mode, when the list of candidates has more than
\* one element the picker is shown and the value written to the SCM input
\* box is the candidate the user selected, or the first candidate if the
\* picker is dismissed; when the list has exactly one element no picker is
\* shown and that element is written.  (Stated for counts >= 1.)
C21_PickerWritesSelected ==
  (Multi /\ commitSuggestions # <<>> /\ suggestionCount >= 1) =>
    LET list == commitSuggestions[1]
    IN /\ Len(list) > 1 =>
            /\ pc \in {"picker", "done"}
            /\ pc = "done" =>
                 /\ Len(selected) = 1
                 /\ thrown = <<>>
                 /\ scmInputBox = IF selected[1] # 0 THEN list[selected[1]].text
                                  ELSE list[1].text
       /\ Len(list) = 1 =>
            /\ pc = "done"
            /\ selected = <<>>
            /\ thrown = <<>>
            /\ scmInputBox = list[1].text

\* the requests of the fan-out of the running invocation
FanOut == {i \in 1..Len(requests) : requests[i].kind = "fan"}

\* the requests issued by the step: the ones the list of requests gained
Issued == {i \in 1..Len(requests') : i > Len(requests)}

SinglePath == {"direct", "fallthrough", "retry"}

\* C25: in the style strategy every request of the fan-out, of every
\* provider, is issued with the sampling temperature 0.7; in the
\* temperature strategy the temperatures of the requests are pairwise
\* distinct; the configured temperature is used by the single-message path
\* only: whatever it is, it is the temperature of every single-message
\* request at the time it is issued and of no request of a strategy.
C25_StrategyTemperatures ==
  /\ [](\A i \in FanOut :
          /\ suggestionStrategy = "style" => requests[i].temperature = 7
          /\ suggestionStrategy = "temperature" =>
               \A j \in FanOut : i # j =>
                  requests[i].temperature # requests[j].temperature)
  /\ [](\A i \in 1..Len(requests) :
          requests[i].kind \in {"fan", "list"} =>
            requests[i].temperature \in {3, 7, 9})
  /\ [][\A i \in Issued :
           requests'[i].kind \in SinglePath =>
             requests'[i].temperature = config.TEMPERATURE]_vars

\* a style fan-out of three requests issued with the temperature set to 0.2
\* has failed, and its retry is out at 0.2
C25_Witness ==
  /\ suggestionStrategy = "style"
  /\ config.TEMPERATURE = 2
  /\ Cardinality(FanOut) = 3
  /\ Len(requests) = 4
  /\ requests[4].kind = "retry"
  /\ requests[4].temperature = 2
  /\ requests[4].st = "inflight"

StrategyPath == {i \in 1..Len(requests) : requests[i].kind \in {"fan", "list"}}

\* C26 as stated: the fallback retry of an invocation is sent with the
\* model name and the key its strategy-path requests were issued with,
\* whatever has been changed in the settings since
C26_RetryUsesSameModelAndKey ==
  \A i \in StrategyPath : \A j \in 1..Len(requests) :
     requests[j].kind = "retry" =>
       /\ requests[j].model = requests[i].model
       /\ requests[j].apiKey = requests[i].apiKey

\* C26, amended: a change of the configured model name or key made while
\* an invocation is in flight does not touch the requests already issued
\* and takes effect at the next call of a provider function: the
\* strategy-path requests of an invocation all carry the model name and the
\* key configured when they were issued together, and every request,
\* the fallback retry included, carries the ones configured at the time it
\* is issued.
C26_ModelAndKeyAtCallTime ==
  /\ [](\A i \in StrategyPath : \A j \in StrategyPath :
          /\ requests[i].model = requests[j].model
          /\ requests[i].apiKey = requests[j].apiKey)
  /\ [][(\A i \in 1..Len(requests) :
            /\ i <= Len(requests')
            /\ requests'[i].model = requests[i].model
            /\ requests'[i].apiKey = requests[i].apiKey)
        /\ (\A j \in Issued :
              /\ requests'[j].model = config.MODEL
              /\ requests'[j].apiKey = config.API_KEY
              /\ config' = config)]_vars

\* the fan-out was issued with model-a, the model name was changed while it
\* was in flight, and the fallback retry is out with model-b
C26_Witness ==
  /\ Len(requests) >= 3
  /\ requests[1].kind = "fan"
  /\ requests[1].model = "model-a"
  /\ requests[Len(requests)].kind = "retry"
  /\ requests[Len(requests)].model = "model-b"
  /\ requests[Len(requests)].st = "inflight"
  /\ config.MODEL = "model-b"

\* C30: if every provider request eventually completes, every call of a
\* multi-candidate function eventually returns a list of candidates or
\* raises, and it issues at most four provider requests: the retry is never
\* retried.
C30_ReturnsOrRaises ==
  /\ [](Len(requests) <= 4)
  /\ [](\A i \in 1..Len(requests) : \A j \in 1..Len(requests) :
          (requests[i].kind = "retry" /\ requests[j].kind = "retry") => i = j)
  /\ (pc = "generate" /\ multipleSuggestions)
       ~> (commitSuggestions # <<>> \/ err # <<>>)

\* a fan-out of three requests has failed, the retry has failed too, and
\* the function has raised after four requests
C30_Witness ==
  /\ multipleSuggestions
  /\ Len(requests) = 4
  /\ requests[4].kind = "retry"
  /\ requests[4].st = "err"
  /\ err # <<>>
  /\ commitSuggestions = <<>>
  /\ pc = "done"

----------------------------------------------------------------------------
(* getDiffAll called on its own: git-utils.ts:61-104 *)

\* what the two `git diff` commands of getDiffAll print: nothing, a blank
\* line, a diff, a diff of two lines, a diff of a file that holds the words
\* "No changes found.", diffs of a source file that holds the text of a header
DiffOutputs ==
  { <<>>,
    <<"\n">>,
    <<"diff --git">>,
    <<"diff --git", "\n", "-", "old", "\n", "+", "new">>,
    <<"diff --git", "\n", "+", "No", " ", "changes", " ", "found", ".">>,
    <<"No", " ", "changes", " ", "found", ".">>,
    <<"diff --git", "\n", "+", "'", "=== STAGED CHANGES ===", "\\n'">>,
    <<"diff --git", "\n", "+", "'", "=== UNSTAGED CHANGES ===", "\\n'">> }

InitDiff ==
  /\ pc = "diff"
  /\ config = Config("openai", "all", FALSE, 3, "temperature", TRUE)
  /\ scmInputBox = <<>>
  /\ NotStarted

\* git-utils.ts:64-103: the two commands are awaited together and their
\* outputs combined; any failure is caught and returned as the error
DiffAll ==
  /\ pc = "diff"
  /\ \E fails \in BOOLEAN :
       \E staged \in (IF fails THEN {<<>>} ELSE DiffOutputs),
          unstaged \in (IF fails THEN {<<>>} ELSE DiffOutputs) :
         /\ gitOutput' = [staged |-> staged, unstaged |-> unstaged, fails |-> fails]
         /\ diffResult' = getDiffAll(staged, unstaged, fails)
  /\ pc' = "diffed"
  /\ UNCHANGED <<config, aiProvider, diffMode, multipleSuggestions,
                 suggestionCount, suggestionStrategy, scmInputBox, messages,
                 requests, caught, commitSuggestions, err, thrown, previous,
                 selected>>

\* the caller reads the result and calls getDiffAll again
DiffAgain ==
  /\ pc = "diffed"
  /\ pc' = "diff"
  /\ UNCHANGED <<config, aiProvider, diffMode, multipleSuggestions,
                 suggestionCount, suggestionStrategy, gitOutput, diffResult,
                 scmInputBox, messages, requests, caught, commitSuggestions,
                 err, thrown, previous, selected>>

NextDiff == DiffAll \/ DiffAgain

SpecDiff == InitDiff /\ [][NextDiff]_vars

\* the positions of the text at which a line that is the header begins
HeaderLines(text, header) ==
  {k \in 1..Len(text) :
     /\ text[k] = header
     /\ k = 1 \/ text[k - 1] = "\n"
     /\ k < Len(text)
     /\ text[k + 1] = "\n"}

\* the text of the section whose header begins at position k, n tokens long
Section(text, k, n) == SubSeq(text, k + 2, k + 1 + n)

\* C31: getDiffAll returns a combined diff in which the staged section,
\* under the line '=== STAGED CHANGES ===', precedes the unstaged section,
\* under the line '=== UNSTAGED CHANGES ==='; each header is there if and
\* only if its part of the diff is not empty, and under it stands that part;
\* the text 'No changes found.' is returned if and only if both parts are
\* empty; when git fails the diff is empty and the error is set.
C31_CombinedDiff ==
  pc = "diffed" =>
    LET staged == gitOutput.staged
        unstaged == gitOutput.unstaged
        text == diffResult.diff
        S == HeaderLines(text, "=== STAGED CHANGES ===")
        U == HeaderLines(text, "=== UNSTAGED CHANGES ===")
    IN IF gitOutput.fails
       THEN text = <<>> /\ diffResult.error # <<>>
       ELSE /\ diffResult.error = <<>>
            /\ (S # {}) <=> (staged # <<>>)
            /\ (U # {}) <=> (unstaged # <<>>)
            /\ Cardinality(S) <= 1
            /\ Cardinality(U) <= 1
            /\ \A k \in S : k = 1 /\ Section(text, k, Len(staged)) = staged
            /\ \A k \in U : /\ Section(text, k, Len(unstaged)) = unstaged
                             /\ k + 1 + Len(unstaged) = Len(text)
            /\ \A k \in S : \A l \in U : k + 1 + Len(staged) < l
            /\ (text = <<"No", " ", "changes", " ", "found", ".">>)
                 <=> (staged = <<>> /\ unstaged = <<>>)

\* both parts are there, and the staged one is the diff of a source file
\* that holds the text of the header of the unstaged section
C31_Witness ==
  /\ pc = "diffed"
  /\ ~gitOutput.fails
  /\ gitOutput.staged =
       <<"diff --git", "\n", "+", "'", "=== UNSTAGED CHANGES ===", "\\n'">>
  /\ gitOutput.unstaged = <<"diff --git", "\n", "-", "old", "\n", "+", "new">>
  /\ Len(diffResult.diff) = 19

====
